---- MODULE Spec2Model ----
(***************************************************************************)
(* Model of the NESO solar forecast consumer: the two fetch functions of   *)
(* fetch_data.py, the pipeline of app.py and the save functions of         *)
(* save_forecast.py.                                                       *)
(*                                                                         *)
(* Strings that the code slices, strips and parses are sequences of        *)
(* one-character strings.  A table cell is a tagged record: NaN (pandas'   *)
(* NaN / NaT / None), Str(s), Num(n) or a timestamp record.  A DataFrame   *)
(* is [columns, dtypes, rows]; each row keeps its index label, as a        *)
(* pandas frame does across dropna().                                      *)
(***************************************************************************)
EXTENDS Integers, Sequences, FiniteSets, TLC

VARIABLES
    upstream,       \* what the NESO API serves: endpoint behaviour and the rows
    apiOut,         \* outcome of the last fetch_data() call
    sqlOut,         \* outcome of the last fetch_data_using_sql() call
    pc,             \* position of the pipeline run (app.py)
    forecast_data,  \* app: the frame fetch_data() returned
    forecasts,      \* app: what the format step returned
    calls,          \* app: how often each step was invoked in this run
    sinkLog,        \* outcomes of the external sink invocations, in order
    saveOut,        \* outcome of the last save function call
    appOut,         \* outcome of the pipeline run
    db,             \* site database: what is committed
    session,        \* site database: the caller's session view (committed + pending)
    lastCall        \* the last save_generation_to_site_db call: number, batch, outcome

vars == <<upstream, apiOut, sqlOut, pc, forecast_data, forecasts, calls,
          sinkLog, saveOut, appOut, db, session, lastCall>>

fetchVars == <<upstream, apiOut, sqlOut>>
appVars == <<pc, forecast_data, forecasts, calls, sinkLog, saveOut, appOut>>
siteVars == <<db, session, lastCall>>

\* ------------------------------------------------------------------ bounds

MaxRows == 2        \* rows in an upstream payload
MaxBatch == 2       \* rows in a generation batch
MaxSaveCalls == 3   \* save_generation_to_site_db calls in one behaviour

\* ------------------------------------------------------------- cell values

NaN == [k |-> "null"]
Str(s) == [k |-> "str", s |-> s]
Num(n) == [k |-> "num", n |-> n]
IsNull(c) == c.k = "null"

\* ------------------------------------------------------- outcomes of a call

Returned(v) == [kind |-> "return", value |-> v]
Raised(e) == [kind |-> "raise", exc |-> e]
NotCalled == [kind |-> "not_called"]

\* Python's exception classes that the modelled calls raise, each with its base.
ExceptionBase ==
    [ HTTPError       |-> "URLError",
      URLError        |-> "OSError",
      OSError         |-> "Exception",
      JSONDecodeError |-> "ValueError",
      EmptyDataError  |-> "ValueError",
      ValueError      |-> "Exception",
      KeyError        |-> "LookupError",
      IndexError      |-> "LookupError",
      LookupError     |-> "Exception",
      AttributeError  |-> "Exception",
      TypeError       |-> "Exception",
      SinkError       |-> "Exception",
      Exception       |-> "BaseException",
      BaseException   |-> "object" ]

RECURSIVE IsInstance(_, _)
IsInstance(e, cls) ==
    IF e = cls THEN TRUE
    ELSE IF e \notin DOMAIN ExceptionBase THEN FALSE
    ELSE IsInstance(ExceptionBase[e], cls)

\* ------------------------------------------------------------ DataFrames

\* pd.DataFrame(): no columns, no rows.
EmptyFrame == [columns |-> {}, dtypes |-> <<>>, rows |-> <<>>]

\* DataFrame.empty / len(df)
FrameIsEmpty(df) == df.columns = {} \/ Len(df.rows) = 0
FrameLen(df) == Len(df.rows)

\* df[[cols]]
SelectColumns(df, cols) ==
    [columns |-> cols,
     dtypes  |-> [c \in cols |-> df.dtypes[c]],
     rows    |-> [i \in 1..Len(df.rows) |->
                    [idx |-> df.rows[i].idx,
                     cells |-> [c \in cols |-> df.rows[i].cells[c]]]]]

\* dropna() followed by a drop_duplicates() the code does not have
DropNaThenDeduplicate(df) ==
    LET Keep(r) == \A c \in df.columns : ~IsNull(r.cells[c])
        kept == SelectSeq(df.rows, Keep)
        First(j) == \A i \in 1..(j - 1) : kept[i].cells # kept[j].cells
        Pick[j \in 0..Len(kept)] ==
            IF j = 0 THEN <<>>
            ELSE IF First(j) THEN Append(Pick[j - 1], kept[j]) ELSE Pick[j - 1]
    IN  [df EXCEPT !.rows = Pick[Len(kept)]]

\* df.dropna(): drop every row holding a null in any column
DropNa(df) ==
    LET Keep(r) == \A c \in df.columns : ~IsNull(r.cells[c])
    IN  [df EXCEPT !.rows = SelectSeq(df.rows, Keep)]

\* df[name] = values (a new or overwritten column)
AssignColumn(df, name, dtype, values) ==
    LET cols == df.columns \cup {name}
    IN  [columns |-> cols,
         dtypes  |-> [c \in cols |-> IF c = name THEN dtype ELSE df.dtypes[c]],
         rows    |-> [i \in 1..Len(df.rows) |->
                        [idx |-> df.rows[i].idx,
                         cells |-> [c \in cols |->
                                      IF c = name THEN values[i]
                                      ELSE df.rows[i].cells[c]]]]]

\* df.rename(columns={old: new}); a missing old name is ignored
RenameColumn(df, old, new) ==
    IF old \notin df.columns THEN df
    ELSE LET cols == (df.columns \ {old}) \cup {new}
             From(c) == IF c = new THEN old ELSE c
         IN  [columns |-> cols,
              dtypes  |-> [c \in cols |-> df.dtypes[From(c)]],
              rows    |-> [i \in 1..Len(df.rows) |->
                             [idx |-> df.rows[i].idx,
                              cells |-> [c \in cols |-> df.rows[i].cells[From(c)]]]]]

\* ------------------------------------------------ pandas string operations

Whitespace == {" ", "\t", "\n"}
Digits == <<"0", "1", "2", "3", "4", "5", "6", "7", "8", "9">>
IsDigit(c) == \E i \in 1..Len(Digits) : Digits[i] = c
DigitVal(c) == (CHOOSE i \in 1..Len(Digits) : Digits[i] = c) - 1

RECURSIVE LStrip(_)
LStrip(s) ==
    IF s # <<>> /\ Head(s) \in Whitespace THEN LStrip(Tail(s)) ELSE s

RECURSIVE RStrip(_)
RStrip(s) ==
    IF s # <<>> /\ s[Len(s)] \in Whitespace
    THEN RStrip(SubSeq(s, 1, Len(s) - 1)) ELSE s

\* Series.str[:n] on one cell: a non-string cell gives NaN
str_slice(c, n) ==
    IF c.k = "str"
    THEN Str(SubSeq(c.s, 1, IF Len(c.s) < n THEN Len(c.s) ELSE n))
    ELSE NaN

\* Series.str.strip() on one cell
str_strip(c) == IF c.k = "str" THEN Str(RStrip(LStrip(c.s))) ELSE NaN

\* a + b on string cells: a null operand gives NaN
str_add(a, b) == IF IsNull(a) \/ IsNull(b) THEN NaN ELSE Str(a.s \o b.s)

\* ------------------------------------------------------ timestamp parsing

IsLeap(y) == (y % 4 = 0 /\ y % 100 # 0) \/ y % 400 = 0
DaysInMonth(y, m) ==
    IF m = 2 THEN (IF IsLeap(y) THEN 29 ELSE 28)
    ELSE IF m \in {4, 6, 9, 11} THEN 30 ELSE 31

RECURSIVE DigitsValue(_)
\* the number a sequence of digit characters writes
DigitsValue(s) ==
    IF s = <<>> THEN 0
    ELSE 10 * DigitsValue(SubSeq(s, 1, Len(s) - 1)) + DigitVal(s[Len(s)])

AllDigits(s) == \A i \in 1..Len(s) : IsDigit(s[i])

\* pd.to_datetime(cell, format="%Y-%m-%d %H:%M", errors="coerce"): the whole
\* string must match the format; anything else is NaT.
to_datetime(c) ==
    IF c.k # "str" THEN NaN
    ELSE LET s == c.s
             shape == /\ Len(s) = 16
                      /\ AllDigits(SubSeq(s, 1, 4))   /\ s[5] = "-"
                      /\ AllDigits(SubSeq(s, 6, 7))   /\ s[8] = "-"
                      /\ AllDigits(SubSeq(s, 9, 10))  /\ s[11] = " "
                      /\ AllDigits(SubSeq(s, 12, 13)) /\ s[14] = ":"
                      /\ AllDigits(SubSeq(s, 15, 16))
         IN  IF ~shape THEN NaN
             ELSE LET y  == DigitsValue(SubSeq(s, 1, 4))
                      mo == DigitsValue(SubSeq(s, 6, 7))
                      d  == DigitsValue(SubSeq(s, 9, 10))
                      h  == DigitsValue(SubSeq(s, 12, 13))
                      mi == DigitsValue(SubSeq(s, 15, 16))
                  IN  IF /\ mo \in 1..12
                         /\ d >= 1 /\ d <= DaysInMonth(y, mo)
                         /\ h \in 0..23
                         /\ mi \in 0..59
                      THEN [k |-> "ts", year |-> y, month |-> mo, day |-> d,
                            hour |-> h, minute |-> mi, tz |-> "naive"]
                      ELSE NaN

\* Series.dt.tz_localize(zone) on one cell: NaT stays NaT
tz_localize(c, zone) == IF c.k = "ts" THEN [c EXCEPT !.tz = zone] ELSE c

\* cell * n on a numeric column: NaN stays NaN
num_mul(c, n) == IF c.k = "num" THEN Num(c.n * n) ELSE NaN

\* ------------------------------------------------------- the upstream feed

DATE_ISO == <<"2","0","2","4","-","0","1","-","0","1","T","0","0",":","0","0",":","0","0">>
DATE_NOT_IN_CALENDAR == <<"2","0","2","3","-","0","2","-","2","9">>
TIME_0030 == <<"0","0",":","3","0">>
TIME_2330_PADDED == <<" ","2","3",":","3","0"," ">>
TIME_XX == <<"x","x",":","x","x">>

DateCells == {Str(DATE_ISO), Str(DATE_NOT_IN_CALENDAR), NaN}
TimeCells == {Str(TIME_0030), Str(TIME_2330_PADDED), Str(TIME_XX), NaN}
ForecastCells == {Num(0), Num(5), NaN}

SourceColumns == {"DATE_GMT", "TIME_GMT", "EMBEDDED_SOLAR_FORECAST", "EMBEDDED_WIND_FORECAST"}
RequiredColumns == {"DATE_GMT", "TIME_GMT", "EMBEDDED_SOLAR_FORECAST"}

RawRows ==
    { [DATE_GMT |-> d, TIME_GMT |-> t, EMBEDDED_SOLAR_FORECAST |-> f,
       EMBEDDED_WIND_FORECAST |-> Num(7)] :
         d \in DateCells, t \in TimeCells, f \in ForecastCells }

RowSeqs(n) == UNION { [1..m -> RawRows] : m \in 0..n }

MetaReplies == {"ok", "unreachable", "not_json", "no_result", "no_resources",
                "empty_resources", "no_path"}
CsvReplies == {"ok", "unreachable", "no_header"}
SqlReplies == {"ok", "unreachable", "not_json", "no_result", "no_records"}

\* One thing goes wrong at a time; a fault is tried on payloads of at most one row.
Upstreams ==
    { [meta |-> "ok", csv |-> "ok", sql |-> "ok", missing |-> "none", rows |-> r] :
        r \in RowSeqs(MaxRows) }
    \cup
    { [meta |-> m, csv |-> "ok", sql |-> "ok", missing |-> "none", rows |-> r] :
        m \in MetaReplies, r \in RowSeqs(1) }
    \cup
    { [meta |-> "ok", csv |-> c, sql |-> "ok", missing |-> "none", rows |-> r] :
        c \in CsvReplies, r \in RowSeqs(1) }
    \cup
    { [meta |-> "ok", csv |-> "ok", sql |-> q, missing |-> "none", rows |-> r] :
        q \in SqlReplies, r \in RowSeqs(1) }
    \cup
    { [meta |-> "ok", csv |-> "ok", sql |-> "ok", missing |-> c, rows |-> r] :
        c \in RequiredColumns, r \in RowSeqs(1) }

ColumnValues(rows, c) == [i \in 1..Len(rows) |-> rows[i][c]]

\* dtype pandas infers for a CSV column
CsvDtype(vals) ==
    IF Len(vals) = 0 THEN "object"
    ELSE IF \E i \in 1..Len(vals) : vals[i].k = "str" THEN "object"
    ELSE IF \E i \in 1..Len(vals) : IsNull(vals[i]) THEN "float64"
    ELSE "int64"

\* dtype pandas infers for a column built from JSON records
RecordsDtype(vals) ==
    IF \E i \in 1..Len(vals) : vals[i].k = "str" THEN "object"
    ELSE IF \A i \in 1..Len(vals) : IsNull(vals[i]) THEN "object"
    ELSE IF \E i \in 1..Len(vals) : IsNull(vals[i]) THEN "float64"
    ELSE "int64"

FrameOf(rows, cols, Dtype(_)) ==
    [columns |-> cols,
     dtypes  |-> [c \in cols |-> Dtype(ColumnValues(rows, c))],
     rows    |-> [i \in 1..Len(rows) |->
                    [idx |-> i - 1, cells |-> [c \in cols |-> rows[i][c]]]]]

\* pd.read_csv(url)
read_csv(up) ==
    IF up.csv = "unreachable" THEN Raised("HTTPError")
    ELSE IF up.csv = "no_header" THEN Raised("EmptyDataError")
    ELSE Returned(FrameOf(up.rows, SourceColumns \ {up.missing}, CsvDtype))

\* pd.DataFrame(records): the columns are the keys of the records
DataFrameOfRecords(up) ==
    IF up.rows = <<>> THEN EmptyFrame
    ELSE FrameOf(up.rows, SourceColumns \ {up.missing}, RecordsDtype)

\* ------------------------------------------------------------ fetch_data.py

TargetColumns == {"Datetime_GMT", "solar_forecast_kw"}

\* df[col].str: KeyError without the column, AttributeError unless it holds strings
StrColumn(df, col) ==
    IF col \notin df.columns THEN Raised("KeyError")
    ELSE IF df.dtypes[col] # "object" THEN Raised("AttributeError")
    ELSE Returned([i \in 1..Len(df.rows) |-> df.rows[i].cells[col]])

\* pd.to_datetime(df["DATE_GMT"].str[:10] + " " + df["TIME_GMT"].str.strip(),
\*                format="%Y-%m-%d %H:%M", errors="coerce").dt.tz_localize("UTC")
Datetime_GMT(df) ==
    LET date == StrColumn(df, "DATE_GMT")
        time == StrColumn(df, "TIME_GMT")
    IN  IF date.kind = "raise" THEN date
        ELSE IF time.kind = "raise" THEN time
        ELSE Returned([i \in 1..Len(df.rows) |->
                tz_localize(
                    to_datetime(str_add(str_add(str_slice(date.value[i], 10), Str(<<" ">>)),
                                        str_strip(time.value[i]))),
                    "UTC")])

\* the forecast column taken as it is, the multiplication left out
forecast_not_scaled(df) ==
    IF "EMBEDDED_SOLAR_FORECAST" \notin df.columns THEN Raised("KeyError")
    ELSE Returned([i \in 1..Len(df.rows) |->
            df.rows[i].cells["EMBEDDED_SOLAR_FORECAST"]])

\* df["EMBEDDED_SOLAR_FORECAST"] * 1000
solar_forecast_kw(df) ==
    IF "EMBEDDED_SOLAR_FORECAST" \notin df.columns THEN Raised("KeyError")
    ELSE Returned([i \in 1..Len(df.rows) |->
            num_mul(df.rows[i].cells["EMBEDDED_SOLAR_FORECAST"], 1000)])

\* the column selection without the dropna()
SelectWithoutDropNa(df) ==
    IF ~(TargetColumns \subseteq df.columns) THEN Raised("KeyError")
    ELSE Returned(SelectColumns(df, TargetColumns))

\* the dropna() without the column selection
DropNaWithoutSelect(df) ==
    IF ~(TargetColumns \subseteq df.columns) THEN Raised("KeyError")
    ELSE Returned(DropNa(df))

\* df[["Datetime_GMT", "solar_forecast_kw"]].dropna()
SelectAndDropNa(df) ==
    IF ~(TargetColumns \subseteq df.columns) THEN Raised("KeyError")
    ELSE Returned(DropNa(SelectColumns(df, TargetColumns)))

\* the try block of fetch_data
fetch_data_try(up) ==
    IF up.meta = "unreachable" THEN Raised("URLError")
    ELSE IF up.meta = "not_json" THEN Raised("JSONDecodeError")
    ELSE IF up.meta \in {"no_result", "no_resources", "no_path"} THEN Raised("KeyError")
    ELSE IF up.meta = "empty_resources" THEN Raised("IndexError")
    ELSE LET csv == read_csv(up) IN
    IF csv.kind = "raise" THEN csv
    ELSE LET ts == Datetime_GMT(csv.value) IN
    IF ts.kind = "raise" THEN ts
    ELSE LET df1 == AssignColumn(csv.value, "Datetime_GMT", "datetime64[ns, UTC]", ts.value)
             kw  == solar_forecast_kw(df1)
         IN
    IF kw.kind = "raise" THEN kw
    ELSE SelectAndDropNa(
            AssignColumn(df1, "solar_forecast_kw",
                         df1.dtypes["EMBEDDED_SOLAR_FORECAST"], kw.value))

\* fetch_data with the URLError and KeyError clauses only
fetch_data_without_catch_all(up) ==
    LET r == fetch_data_try(up)
    IN  IF r.kind = "return" THEN r
        ELSE IF IsInstance(r.exc, "URLError") THEN Returned(EmptyFrame)
        ELSE IF IsInstance(r.exc, "KeyError") THEN Returned(EmptyFrame)
        ELSE r

\* fetch_data: the try block, then the except clauses in order; what none of
\* them catches propagates, everything caught ends in `return pd.DataFrame()`
fetch_data(up) ==
    LET r == fetch_data_try(up)
    IN  IF r.kind = "return" THEN r
        ELSE IF IsInstance(r.exc, "URLError") THEN Returned(EmptyFrame)
        ELSE IF IsInstance(r.exc, "KeyError") THEN Returned(EmptyFrame)
        ELSE IF IsInstance(r.exc, "Exception") THEN Returned(EmptyFrame)
        ELSE r

\* the try block of fetch_data_using_sql
fetch_data_using_sql_try(up) ==
    IF up.sql = "unreachable" THEN Raised("URLError")
    ELSE IF up.sql = "not_json" THEN Raised("JSONDecodeError")
    ELSE IF up.sql \in {"no_result", "no_records"} THEN Raised("KeyError")
    ELSE LET df == DataFrameOfRecords(up)
             ts == Datetime_GMT(df)
         IN
    IF ts.kind = "raise" THEN ts
    ELSE SelectAndDropNa(
            RenameColumn(
                AssignColumn(df, "Datetime_GMT", "datetime64[ns, UTC]", ts.value),
                "EMBEDDED_SOLAR_FORECAST", "solar_forecast_kw"))

\* fetch_data_using_sql: the try block, then the except clauses in order
fetch_data_using_sql(up) ==
    LET r == fetch_data_using_sql_try(up)
    IN  IF r.kind = "return" THEN r
        ELSE IF IsInstance(r.exc, "URLError") THEN Returned(EmptyFrame)
        ELSE IF IsInstance(r.exc, "KeyError") THEN Returned(EmptyFrame)
        ELSE IF IsInstance(r.exc, "Exception") THEN Returned(EmptyFrame)
        ELSE r

\* ------------------------------------------- specification: the fetch paths

AppIdle ==
    /\ pc = "idle"
    /\ forecast_data = EmptyFrame
    /\ forecasts = <<>>
    /\ calls = [fetch |-> 0, format |-> 0, save |-> 0]
    /\ sinkLog = <<>>
    /\ saveOut = NotCalled
    /\ appOut = NotCalled

NoSite == [k |-> "absent"]
Site(capacity) == [k |-> "site", capacity_kw |-> capacity]

SiteIdle ==
    /\ db = [site |-> NoSite, generation |-> {}]
    /\ session = db
    /\ lastCall = [n |-> 0, rows |-> 0, max |-> NaN, out |-> NotCalled]

InitFetch ==
    /\ upstream \in Upstreams
    /\ apiOut = NotCalled
    /\ sqlOut = NotCalled
    /\ AppIdle
    /\ SiteIdle

\* a caller (a test, the pipeline) calls fetch_data()
CallFetchData ==
    /\ apiOut' = fetch_data(upstream)
    /\ UNCHANGED <<upstream, sqlOut, appVars, siteVars>>

\* a caller calls fetch_data_using_sql(query)
CallFetchSql ==
    /\ sqlOut' = fetch_data_using_sql(upstream)
    /\ UNCHANGED <<upstream, apiOut, appVars, siteVars>>

NextFetch == CallFetchData \/ CallFetchSql

SpecFetch == InitFetch /\ [][NextFetch]_vars

\* --------------------------------------------- properties of the fetch paths

\* The rows of the feed that are well formed, told by listing them: the date
\* and time strings of the feed that write a calendar date and a time of day.
ValidDateStrings == {DATE_ISO}
ValidTimeStrings == {TIME_0030, TIME_2330_PADDED}
WellFormed(raw) ==
    /\ raw.DATE_GMT.k = "str" /\ raw.DATE_GMT.s \in ValidDateStrings
    /\ raw.TIME_GMT.k = "str" /\ raw.TIME_GMT.s \in ValidTimeStrings
    /\ raw.EMBEDDED_SOLAR_FORECAST.k = "num"

ApiReplied == upstream.meta = "ok" /\ upstream.csv = "ok" /\ upstream.missing = "none"
SqlReplied == upstream.sql = "ok" /\ upstream.missing = "none"
AllWellFormed ==
    /\ upstream.rows # <<>>
    /\ \A i \in 1..Len(upstream.rows) : WellFormed(upstream.rows[i])

RECURSIVE ValidIndexFrom(_, _)
\* the index labels (0-based) of the well-formed rows, in source order
ValidIndexFrom(rows, i) ==
    IF i > Len(rows) THEN <<>>
    ELSE IF WellFormed(rows[i]) THEN <<i - 1>> \o ValidIndexFrom(rows, i + 1)
    ELSE ValidIndexFrom(rows, i + 1)

IndexOf(df) == [j \in 1..Len(df.rows) |-> df.rows[j].idx]

TwoDigits(n) == <<Digits[(n \div 10) + 1], Digits[(n % 10) + 1]>>
\* a timestamp written as YYYY-MM-DD HH:MM
FormatTimestamp(t) ==
    TwoDigits(t.year \div 100) \o TwoDigits(t.year % 100) \o <<"-">> \o
    TwoDigits(t.month) \o <<"-">> \o TwoDigits(t.day) \o <<" ">> \o
    TwoDigits(t.hour) \o <<":">> \o TwoDigits(t.minute)
WithoutBlanks(s) == SelectSeq(s, LAMBDA c : c \notin Whitespace)

\* C1 (as the spec and test_data_consistency state it, on a batch of
\* well-formed rows): once both fetch paths have answered for the same
\* upstream rows, they hold equal tables: the same column set and the same
\* row sequence, value for value.
C1_PathsReturnEqualTables ==
    (/\ apiOut.kind = "return" /\ sqlOut.kind = "return"
     /\ ApiReplied /\ SqlReplied /\ AllWellFormed)
    => /\ apiOut.value.columns = sqlOut.value.columns
       /\ apiOut.value.rows = sqlOut.value.rows

\* C2: neither fetch function raises to its caller; when the metadata
\* request, the download or the payload shape fails, the function returns
\* the empty table.
C2_FetchNeverRaises ==
    /\ apiOut.kind # "raise"
    /\ sqlOut.kind # "raise"
    /\ (apiOut.kind = "return" /\ ~ApiReplied) => apiOut.value = EmptyFrame
    /\ (sqlOut.kind = "return" /\ ~SqlReplied) => sqlOut.value = EmptyFrame

C2_Witness ==
    /\ upstream.meta = "empty_resources"
    /\ upstream.rows # <<>>
    /\ apiOut.kind = "return" /\ apiOut.value = EmptyFrame
    /\ sqlOut.kind = "return" /\ sqlOut.value # EmptyFrame

RowsSound(out) ==
    out.kind = "return" =>
        \A j \in 1..Len(out.value.rows) :
            LET r == out.value.rows[j]
            IN  /\ TargetColumns \subseteq out.value.columns
                /\ \A c \in out.value.columns : ~IsNull(r.cells[c])
                /\ r.idx + 1 \in 1..Len(upstream.rows)
                /\ WellFormed(upstream.rows[r.idx + 1])

RowsRetained(out, replied) ==
    (out.kind = "return" /\ replied) =>
        \A i \in 1..Len(upstream.rows) :
            WellFormed(upstream.rows[i]) =>
                \E j \in 1..Len(out.value.rows) : out.value.rows[j].idx = i - 1

\* C3: every row of a returned table has a timestamp and a value, and comes
\* from a well-formed row of the feed (a row whose date and time do not parse,
\* or whose forecast is missing, is dropped, never defaulted); every
\* well-formed row of the batch is retained.
C3_RowsNonNullInvalidDropped ==
    /\ RowsSound(apiOut) /\ RowsRetained(apiOut, ApiReplied)
    /\ RowsSound(sqlOut) /\ RowsRetained(sqlOut, SqlReplied)

C3_Witness ==
    /\ ApiReplied /\ SqlReplied
    /\ Len(upstream.rows) = 2
    /\ upstream.rows[1].TIME_GMT = Str(TIME_XX)
    /\ WellFormed(upstream.rows[2])
    /\ apiOut.kind = "return" /\ IndexOf(apiOut.value) = <<1>>
    /\ sqlOut.kind = "return" /\ IndexOf(sqlOut.value) = <<1>>

SubsequenceOfValid(out, replied) ==
    out.kind = "return" =>
        /\ Len(out.value.rows) <= Len(upstream.rows)
        /\ replied => IndexOf(out.value) = ValidIndexFrom(upstream.rows, 1)
        /\ (replied /\ \A i \in 1..Len(upstream.rows) : WellFormed(upstream.rows[i]))
              => Len(out.value.rows) = Len(upstream.rows)
        /\ upstream.rows = <<>> => out.value.rows = <<>>

\* C7: a returned table is the subsequence of the feed's rows made of exactly
\* the valid rows, in source order, equal timestamps kept: at most as many
\* rows as the feed has, as many when every row is valid, and an empty table
\* (no error) for a feed of no rows.
C7_ValidRowsInSourceOrder ==
    /\ SubsequenceOfValid(apiOut, ApiReplied)
    /\ SubsequenceOfValid(sqlOut, SqlReplied)
    /\ upstream.rows = <<>> => apiOut.kind # "raise" /\ sqlOut.kind # "raise"

C7_Witness ==
    /\ ApiReplied /\ SqlReplied
    /\ Len(upstream.rows) = 2
    /\ WellFormed(upstream.rows[1]) /\ WellFormed(upstream.rows[2])
    /\ upstream.rows[1].DATE_GMT = upstream.rows[2].DATE_GMT
    /\ upstream.rows[1].TIME_GMT = upstream.rows[2].TIME_GMT
    /\ apiOut.kind = "return" /\ IndexOf(apiOut.value) = <<0, 1>>
    /\ sqlOut.kind = "return" /\ IndexOf(sqlOut.value) = <<0, 1>>

ExactlyTargetColumns(out, replied) ==
    out.kind = "return" =>
        /\ (replied /\ AllWellFormed) =>
              out.value.columns = TargetColumns /\ out.value.rows # <<>>
        /\ out.value.rows # <<>> => out.value.columns = TargetColumns

\* C8: the table a successful fetch returns has exactly the target columns
\* Datetime_GMT and solar_forecast_kw: no source column survives, no target
\* column is missing.
C8_ColumnsAreTheTargets ==
    /\ ExactlyTargetColumns(apiOut, ApiReplied)
    /\ ExactlyTargetColumns(sqlOut, SqlReplied)

C8_Witness ==
    /\ ApiReplied /\ SqlReplied /\ AllWellFormed
    /\ apiOut.kind = "return" /\ apiOut.value.columns = TargetColumns
    /\ sqlOut.kind = "return" /\ sqlOut.value.columns = TargetColumns

ScenarioRow ==
    [DATE_GMT |-> Str(DATE_ISO), TIME_GMT |-> Str(TIME_0030),
     EMBEDDED_SOLAR_FORECAST |-> Num(5), EMBEDDED_WIND_FORECAST |-> Num(7)]

\* C9: for every valid row of the feed fetch_data emits a row whose
\* Datetime_GMT is the UTC instant written by the first 10 characters of
\* DATE_GMT and the trimmed TIME_GMT, and whose solar_forecast_kw is 1000
\* times EMBEDDED_SOLAR_FORECAST; 2024-01-01T00:00:00, 00:30, 5 gives
\* 2024-01-01 00:30 UTC and 5000.
C9_TimestampAndKilowatts ==
    (apiOut.kind = "return" /\ ApiReplied) =>
        \A i \in 1..Len(upstream.rows) :
            WellFormed(upstream.rows[i]) =>
                \E j \in 1..Len(apiOut.value.rows) :
                    LET r   == apiOut.value.rows[j]
                        raw == upstream.rows[i]
                        t   == r.cells["Datetime_GMT"]
                    IN  /\ r.idx = i - 1
                        /\ t.k = "ts" /\ t.tz = "UTC"
                        /\ FormatTimestamp(t) =
                              SubSeq(raw.DATE_GMT.s, 1, 10) \o <<" ">> \o
                              WithoutBlanks(raw.TIME_GMT.s)
                        /\ r.cells["solar_forecast_kw"] =
                              Num(raw.EMBEDDED_SOLAR_FORECAST.n * 1000)
                        /\ raw = ScenarioRow =>
                              /\ t = [k |-> "ts", year |-> 2024, month |-> 1, day |-> 1,
                                      hour |-> 0, minute |-> 30, tz |-> "UTC"]
                              /\ r.cells["solar_forecast_kw"] = Num(5000)

C9_Witness ==
    /\ ApiReplied
    /\ upstream.rows = <<ScenarioRow>>
    /\ apiOut.kind = "return"
    /\ Len(apiOut.value.rows) = 1
    /\ apiOut.value.rows[1].cells["solar_forecast_kw"] = Num(5000)

\* -------------------------------------------------------- save_forecast.py

\* save_forecasts_to_db with the failure logged and not raised again
save_forecasts_to_db_swallowing(forecasts_, sink) ==
    IF forecasts_ = <<>> THEN [out |-> Returned("None"), sink |-> <<>>]
    ELSE [out |-> Returned("None"), sink |-> <<sink>>]

\* save_forecasts_to_db(forecasts, session); `sink` is what the external
\* save() does when invoked ("ok" or "raise").  The result is the outcome of
\* the call and the sink invocations it made.
save_forecasts_to_db(forecasts_, sink) ==
    IF forecasts_ = <<>> THEN [out |-> Returned("None"), sink |-> <<>>]
    ELSE IF sink = "raise" THEN [out |-> Raised("SinkError"), sink |-> <<sink>>]
    ELSE [out |-> Returned("None"), sink |-> <<sink>>]

\* save_forecasts_to_csv(forecasts, csv_dir); `fs` is what the file system
\* does: "ok", "mkdir_fails" (os.makedirs raises) or "raise" (to_csv raises)
save_forecasts_to_csv(frame, csv_dir, fs) ==
    IF FrameIsEmpty(frame) THEN [out |-> Returned("None"), sink |-> <<>>]
    ELSE IF csv_dir = "" THEN [out |-> Raised("ValueError"), sink |-> <<>>]
    ELSE IF fs = "mkdir_fails" THEN [out |-> Raised("OSError"), sink |-> <<>>]
    ELSE IF fs = "raise" THEN [out |-> Raised("SinkError"), sink |-> <<fs>>]
    ELSE [out |-> Returned("None"), sink |-> <<fs>>]

\* ------------------------------------------------------------------ app.py

\* format_to_forecast_sql(data, model_tag, model_version, session): a list of
\* ForecastSQL objects, possibly empty, or an exception
format_to_forecast_sql(data, reply) ==
    IF reply = "raise" THEN Raised("Exception")
    ELSE IF reply = "no_forecasts" THEN Returned(<<>>)
    ELSE Returned(<<[model_tag |-> "neso-solar-forecast", values |-> FrameLen(data)]>>)

\* save_forecasts(forecasts, session), the name app.py imports
save_forecasts(forecasts_, sink) == save_forecasts_to_db(forecasts_, sink)

\* a check for a missing frame in place of the check for an empty one
AfterFetchChecksNone(data) == "format"

\* `if forecast_data.empty: return`, else on to the format step
AfterFetch(data) == IF FrameIsEmpty(data) THEN "returned" ELSE "format"

\* `if not forecasts: return`, else on to the save step
AfterFormat(list) == IF list = <<>> THEN "returned" ELSE "save"

InitApp ==
    /\ upstream \in Upstreams
    /\ apiOut = NotCalled
    /\ sqlOut = NotCalled
    /\ AppIdle
    /\ SiteIdle

\* app(db_url) is called: the connection is made and the session entered;
\* get_session() failing is caught by the except clause and raised again
AppCall ==
    /\ pc = "idle"
    /\ \E opened \in BOOLEAN :
          IF opened
          THEN pc' = "fetch" /\ appOut' = [kind |-> "running"]
          ELSE pc' = "raised" /\ appOut' = Raised("Exception")
    /\ UNCHANGED <<fetchVars, forecast_data, forecasts, calls, sinkLog, saveOut, siteVars>>

\* Step 1: forecast_data = fetch_data(); an empty frame ends the run
AppFetch ==
    /\ pc = "fetch"
    /\ LET r == fetch_data(upstream)
       IN  /\ apiOut' = r
           /\ calls' = [calls EXCEPT !.fetch = @ + 1]
           /\ IF r.kind = "raise"
              THEN /\ pc' = "raised"
                   /\ appOut' = r
                   /\ UNCHANGED forecast_data
              ELSE /\ forecast_data' = r.value
                   /\ pc' = AfterFetch(r.value)
                   /\ appOut' = IF AfterFetch(r.value) = "returned"
                                THEN Returned("None") ELSE appOut
    /\ UNCHANGED <<upstream, sqlOut, forecasts, sinkLog, saveOut, siteVars>>

\* Step 2: forecasts = format_to_forecast_sql(...); no forecasts end the run
AppFormat ==
    /\ pc = "format"
    /\ \E reply \in {"ok", "no_forecasts", "raise"} :
          LET r == format_to_forecast_sql(forecast_data, reply)
          IN  /\ calls' = [calls EXCEPT !.format = @ + 1]
              /\ IF r.kind = "raise"
                 THEN /\ pc' = "raised"
                      /\ appOut' = r
                      /\ UNCHANGED forecasts
                 ELSE /\ forecasts' = r.value
                      /\ pc' = AfterFormat(r.value)
                      /\ appOut' = IF AfterFormat(r.value) = "returned"
                                   THEN Returned("None") ELSE appOut
    /\ UNCHANGED <<fetchVars, forecast_data, sinkLog, saveOut, siteVars>>

\* Step 3: save_forecasts(forecasts, session); what it raises is logged by
\* the except clause and raised again, otherwise the run completes
AppSave ==
    /\ pc = "save"
    /\ \E sink \in {"ok", "raise"} :
          LET r == save_forecasts(forecasts, sink)
          IN  /\ calls' = [calls EXCEPT !.save = @ + 1]
              /\ sinkLog' = sinkLog \o r.sink
              /\ saveOut' = r.out
              /\ IF r.out.kind = "raise"
                 THEN pc' = "raised" /\ appOut' = r.out
                 ELSE pc' = "returned" /\ appOut' = Returned("None")
    /\ UNCHANGED <<fetchVars, forecast_data, forecasts, siteVars>>

\* the script entry: the environment is read, a missing setting exits with 1,
\* and app is called with save_method and csv_dir, which app(db_url) does not take
MainEntry ==
    /\ pc = "idle"
    /\ \E db_url \in {"", "postgresql://db"}, save_method \in {"db", "csv"},
          csv_dir \in {"", "/data"} :
          IF (save_method = "csv" /\ csv_dir = "") \/ db_url = ""
          THEN pc' = "exit" /\ appOut' = [kind |-> "exit", code |-> 1]
          ELSE pc' = "raised" /\ appOut' = Raised("TypeError")
    /\ UNCHANGED <<fetchVars, forecast_data, forecasts, calls, sinkLog, saveOut, siteVars>>

\* a caller calls save_forecasts_to_db(forecasts, session)
CallSaveForecastsToDb ==
    /\ pc = "idle"
    /\ \E list \in {<<>>, <<[model_tag |-> "neso-solar-forecast", values |-> 1]>>},
          sink \in {"ok", "raise"} :
          LET r == save_forecasts_to_db(list, sink)
          IN  /\ forecasts' = list
              /\ sinkLog' = sinkLog \o r.sink
              /\ saveOut' = r.out
    /\ pc' = "called"
    /\ UNCHANGED <<fetchVars, forecast_data, calls, appOut, siteVars>>

\* a caller calls save_forecasts_to_csv(forecasts, csv_dir) on a fetched frame
CallSaveForecastsToCsv ==
    /\ pc = "idle"
    /\ \E csv_dir \in {"", "/data"}, fs \in {"ok", "mkdir_fails", "raise"} :
          LET frame == fetch_data(upstream).value
              r == save_forecasts_to_csv(frame, csv_dir, fs)
          IN  /\ forecast_data' = frame
              /\ sinkLog' = sinkLog \o r.sink
              /\ saveOut' = r.out
    /\ pc' = "called"
    /\ UNCHANGED <<fetchVars, forecasts, calls, appOut, siteVars>>

NextApp ==
    \/ AppCall
    \/ AppFetch
    \/ AppFormat
    \/ AppSave
    \/ MainEntry
    \/ CallSaveForecastsToDb
    \/ CallSaveForecastsToCsv

SpecApp == InitApp /\ [][NextApp]_vars

\* C4: in a pipeline run, when the fetch step yields an empty table (also the
\* empty table of a failed fetch), neither the format step nor any save or
\* sink is invoked in that run, and the run ends normally without raising.
C4_EmptyFetchEndsRun ==
    (calls.fetch = 1 /\ FrameIsEmpty(forecast_data)) =>
        /\ calls.format = 0
        /\ calls.save = 0
        /\ sinkLog = <<>>
        /\ saveOut = NotCalled
        /\ pc = "returned"
        /\ appOut = Returned("None")

C4_Witness ==
    /\ upstream.meta = "unreachable"
    /\ upstream.rows # <<>>
    /\ calls.fetch = 1
    /\ forecast_data = EmptyFrame
    /\ pc = "returned"

\* C5: a failure of the sink is never swallowed and never retried: when the
\* external save (or the CSV write) raises, the save function has invoked
\* the sink exactly once and raises to its caller, and a pipeline run that
\* reached the save step ends raised, not returned.
C5_SinkFailurePropagates ==
    (sinkLog # <<>> /\ sinkLog[Len(sinkLog)] = "raise") =>
        /\ Len(sinkLog) = 1
        /\ saveOut = Raised("SinkError")
        /\ calls.save = 1 => (pc = "raised" /\ appOut = Raised("SinkError"))
        /\ pc # "returned"

C5_Witness ==
    /\ calls = [fetch |-> 1, format |-> 1, save |-> 1]
    /\ sinkLog = <<"raise">>
    /\ saveOut.kind = "raise"
    /\ pc = "raised"
    /\ appOut.kind = "raise"

\* ------------------------------------------- save_generation_to_site_db

\* capacity_kw given to create_site
CreatedCapacityKw == 20000000

PowerCells == {Num(5000), Num(25000000), Num(30000000), NaN}
Batches == UNION { [1..m -> PowerCells] : m \in 0..MaxBatch }
InitialSites == {NoSite, Site(CreatedCapacityKw), Site(10000)}

\* generation_data['power_kw'].max(): NaN cells are skipped, NaN if none is left
PowerMax(batch) ==
    LET nums == { batch[i].n : i \in { j \in 1..Len(batch) : batch[j].k = "num" } }
    IN  IF nums = {} THEN NaN
        ELSE Num(CHOOSE m \in nums : \A x \in nums : x <= m)

\* the capacity set to the batch maximum whatever it was
CapacityAlwaysUpdated(max, capacity_kw) == max.k = "num"

\* generation_data['power_kw'].max() > site.capacity_kw
CapacityTooSmall(max, capacity_kw) == max.k = "num" /\ max.n > capacity_kw

\* save_generation_to_site_db(generation_data, session, country) as call
\* number n on database d seen through session s.  `fail` names the external
\* step that raises in this call ("none" for none); `createCommits` is whether
\* create_site commits the session itself.  The result is the outcome and the
\* database and session the call leaves.
save_generation_to_site_db(batch, country, d, s, n, fail, createCommits) ==
    IF batch = <<>> THEN [out |-> Returned("None"), db |-> d, session |-> s]
    ELSE IF country # "nl" THEN [out |-> Raised("Exception"), db |-> d, session |-> s]
    ELSE IF s.site = NoSite /\ fail = "create_site"
    THEN [out |-> Raised("Exception"), db |-> d, session |-> s]
    ELSE
    LET created == s.site = NoSite
        s1 == IF created THEN [s EXCEPT !.site = Site(CreatedCapacityKw)] ELSE s
        d1 == IF created /\ createCommits THEN s1 ELSE d
        s2 == [s1 EXCEPT !.generation = @ \cup {n}]
        s3 == [s2 EXCEPT !.site = Site(PowerMax(batch).n)]
    IN  IF fail = "insert" THEN [out |-> Raised("Exception"), db |-> d1, session |-> s1]
        ELSE IF fail = "commit1"
        THEN [out |-> Raised("Exception"), db |-> d1, session |-> s2]
        ELSE IF ~CapacityTooSmall(PowerMax(batch), s2.site.capacity_kw)
        THEN [out |-> Returned("None"), db |-> s2, session |-> s2]
        ELSE IF fail = "commit2"
        THEN [out |-> Raised("Exception"), db |-> s2, session |-> s3]
        ELSE [out |-> Returned("None"), db |-> s3, session |-> s3]

InitSite ==
    /\ upstream = [meta |-> "ok", csv |-> "ok", sql |-> "ok", missing |-> "none",
                   rows |-> <<>>]
    /\ apiOut = NotCalled
    /\ sqlOut = NotCalled
    /\ AppIdle
    /\ \E site \in InitialSites : db = [site |-> site, generation |-> {}]
    /\ session = db
    /\ lastCall = [n |-> 0, rows |-> 0, max |-> NaN, out |-> NotCalled]

\* a caller calls save_generation_to_site_db on its session
CallSaveGenerationToSiteDb ==
    /\ lastCall.n < MaxSaveCalls
    /\ \E batch \in Batches, country \in {"nl", "uk"},
          fail \in {"none", "create_site", "insert", "commit1", "commit2"},
          createCommits \in BOOLEAN :
          LET r == save_generation_to_site_db(batch, country, db, session,
                                              lastCall.n + 1, fail, createCommits)
          IN  /\ db' = r.db
              /\ session' = r.session
              /\ lastCall' = [n |-> lastCall.n + 1, rows |-> Len(batch),
                              max |-> PowerMax(batch), out |-> r.out]
    /\ UNCHANGED <<fetchVars, appVars>>

NextSite == CallSaveGenerationToSiteDb

SpecSite == InitSite /\ [][NextSite]_vars

\* C6 (its first case): a save_generation_to_site_db call that ends in
\* failure has persisted nothing of what it did; in particular the
\* generation values of a failed call are never committed.
C6_FailedSaveCommitsNothing ==
    (lastCall.n > 0 /\ lastCall.out.kind = "raise") =>
        lastCall.n \notin db.generation

StoredCapacityNeverDecreases ==
    db.site # NoSite =>
        db'.site # NoSite /\ db'.site.capacity_kw >= db.site.capacity_kw

SavedBatchFits ==
    (lastCall'.n # lastCall.n /\ lastCall'.rows > 0 /\ lastCall'.out.kind = "return") =>
        LET current == IF session.site = NoSite THEN CreatedCapacityKw
                       ELSE session.site.capacity_kw
            max == lastCall'.max
        IN  /\ db'.site # NoSite
            /\ max.k = "num" => db'.site.capacity_kw >= max.n
            /\ db'.site.capacity_kw =
                  IF max.k = "num" /\ max.n > current THEN max.n ELSE current

EmptyBatchChangesNothing ==
    (lastCall'.n # lastCall.n /\ lastCall'.rows = 0) =>
        /\ db' = db
        /\ session' = session
        /\ lastCall'.out = Returned("None")

\* C10: across the save_generation_to_site_db calls the stored capacity_kw of
\* the site never decreases; after a call that completes it is at least the
\* maximum power_kw of the batch saved, raised to that maximum only when the
\* maximum exceeds the current capacity and otherwise left as it was; a call
\* with an empty batch changes nothing.
C10_CapacityOnlyGrows ==
    [][StoredCapacityNeverDecreases /\ SavedBatchFits /\ EmptyBatchChangesNothing]_vars

C10_Witness ==
    /\ lastCall.n >= 2
    /\ lastCall.out.kind = "return"
    /\ lastCall.max = Num(25000000)
    /\ db.site = Site(30000000)
====
